---- MODULE Spec2Model ----
(***************************************************************************)
(* A model of the CHIP-8 interpreter of ckiely91/chip8: the Chip8 struct,  *)
(* Initialize, LoadGame, fetchOpcode, decodeOpcode, awaitKeyPress and      *)
(* EmulateCycle, as driven by main (Initialize, LoadGame, then a loop of   *)
(* EmulateCycle).  Go's uint8/uint16 arithmetic wraps; an out-of-range     *)
(* array index and an unmatched opcode both panic, which ends the process  *)
(* and leaves the struct as the statements before the panic left it.       *)
(***************************************************************************)
EXTENDS Integers, Sequences, FiniteSets

VARIABLES
    c,        \* the Chip8 struct (all its fields but the keyWatcher handle)
    main,     \* the call the process made last (its position in main)
    halt,     \* "" while the process runs, else why it stopped
    opcode,   \* EmulateCycle's local: the word the last cycle fetched
    beep,     \* whether the last cycle printed BEEP!!
    callLog,  \* history: for every 2NNN not yet returned from, where it was
              \* fetched and the stack pointer before it
    sampled,  \* awaitKeyPress's local newKeys: the snapshot its last poll
              \* read; when the wait begins, the snapshot the cycle before
              \* it read
    loaded,   \* LoadGame's argument: the bytes of the image last loaded
    reused    \* history: whether the struct, not loaded since, was last
              \* initialized after it had run cycles

vars == <<c, main, halt, opcode, beep, callLog, sampled, loaded, reused>>

----------------------------------------------------------------------------
(* Sizes fixed by the struct's array types. *)
MemSize == 4096
GfxSize == 2048
StackSize == 16
NumRegs == 16
NumKeys == 16
FontSize == 80
LoadAddr == 512
Byte == 256
Word == 65536

Chip8Fontset ==
    << 240, 144, 144, 144, 240,
        32,  96,  32,  32, 112,
       240,  16, 240, 128, 240,
       240,  16, 240,  16, 240,
       144, 144, 240,  16,  16,
       240, 128, 240,  16, 240,
       240, 128, 240, 144, 240,
       240,  16,  32,  64,  64,
       240, 144, 240, 144, 240,
       240, 144, 240,  16, 240,
       240, 144, 240, 144, 144,
       224, 144, 224, 144, 224,
       240, 128, 128, 128, 240,
       224, 144, 144, 144, 224,
       240, 128, 240, 128, 240,
       240, 128, 240, 128, 128 >>

(* NewChip8: the zero value of the struct. *)
NewChip8 ==
    [ opcode     |-> 0,
      I          |-> 0,
      pc         |-> 0,
      memory     |-> [a \in 0..(MemSize - 1) |-> 0],
      V          |-> [r \in 0..(NumRegs - 1) |-> 0],
      gfx        |-> [p \in 0..(GfxSize - 1) |-> 0],
      drawFlag   |-> FALSE,
      stack      |-> [s \in 0..(StackSize - 1) |-> 0],
      sp         |-> 0,
      delayTimer |-> 0,
      soundTimer |-> 0,
      keys       |-> [k \in 0..(NumKeys - 1) |-> FALSE] ]

(* Variant of Initialize that assigns neither the key latch nor the dirty *)
(* flag: what C24 must rule out.                                           *)
InitializeStruct_KeepsLatch(s) ==
    [ s EXCEPT
      !.opcode     = 0,
      !.I          = 0,
      !.sp         = 0,
      !.pc         = LoadAddr,
      !.memory     = [a \in 0..(MemSize - 1) |->
                         IF a < FontSize THEN Chip8Fontset[a + 1] ELSE 0],
      !.V          = [r \in 0..(NumRegs - 1) |-> 0],
      !.gfx        = [p \in 0..(GfxSize - 1) |-> 0],
      !.stack      = [k \in 0..(StackSize - 1) |-> 0],
      !.delayTimer = 0,
      !.soundTimer = 0 ]

(* Initialize: every field it assigns, then the font copy. *)
InitializeStruct(s) ==
    [ s EXCEPT
      !.opcode     = 0,
      !.I          = 0,
      !.sp         = 0,
      !.pc         = LoadAddr,
      !.memory     = [a \in 0..(MemSize - 1) |->
                         IF a < FontSize THEN Chip8Fontset[a + 1] ELSE 0],
      !.V          = [r \in 0..(NumRegs - 1) |-> 0],
      !.gfx        = [p \in 0..(GfxSize - 1) |-> 0],
      !.stack      = [k \in 0..(StackSize - 1) |-> 0],
      !.delayTimer = 0,
      !.soundTimer = 0,
      !.keys       = [k \in 0..(NumKeys - 1) |-> FALSE],
      !.drawFlag   = TRUE ]

----------------------------------------------------------------------------
(* What a call leaves behind: the struct, and the panic that ended it, if  *)
(* any.                                                                    *)
PanicUnknown == "Unknown opcode"
PanicIndex == "index out of range"

Done(s) == [c |-> s, panic |-> ""]
Panicked(s, why) == [c |-> s, panic |-> why]

(* Variant of LoadGame that stores from address 0: what C7 must rule out. *)
LoadGameStruct_FromZero(s, buf) ==
    Done([s EXCEPT !.memory =
            [a \in 0..(MemSize - 1) |->
                IF a < Len(buf) THEN buf[a + 1] ELSE s.memory[a]]])

(* Variant of LoadGame that stops storing at the end of memory and        *)
(* returns: what C16 must rule out.                                        *)
LoadGameStruct_Truncates(s, buf) ==
    Done([s EXCEPT !.memory =
            [a \in 0..(MemSize - 1) |->
                IF a >= LoadAddr /\ a - LoadAddr < Len(buf)
                THEN buf[a - LoadAddr + 1] ELSE s.memory[a]]])

(* LoadGame: bytes are stored from 0x200 on; the store at index 4096       *)
(* panics, with the bytes before it already stored.                        *)
LoadGameStruct(s, buf) ==
    LET mem == [a \in 0..(MemSize - 1) |->
                   IF a >= LoadAddr /\ a - LoadAddr < Len(buf)
                   THEN buf[a - LoadAddr + 1] ELSE s.memory[a]]
    IN IF Len(buf) > MemSize - LoadAddr
       THEN Panicked([s EXCEPT !.memory = mem], PanicIndex)
       ELSE Done([s EXCEPT !.memory = mem])

----------------------------------------------------------------------------
(* Operand fields of an opcode word, and fixed-width helpers. *)
X(op) == (op \div 256) % 16
Y(op) == (op \div 16) % 16
NNN(op) == op % 4096
NN(op) == op % 256
N(op) == op % 16

Bit(v, i) == (v \div (2 ^ i)) % 2

RECURSIVE BitOp(_, _, _, _)
BitOp(kind, a, b, i) ==
    IF i >= 8 THEN 0
    ELSE (LET p == Bit(a, i)
              q == Bit(b, i)
              r == CASE kind = "or"  -> (IF p + q > 0 THEN 1 ELSE 0)
                     [] kind = "and" -> p * q
                     [] kind = "xor" -> (p + q) % 2
          IN r * (2 ^ i)) + BitOp(kind, a, b, i + 1)

Or8(a, b) == BitOp("or", a, b, 0)
And8(a, b) == BitOp("and", a, b, 0)
Xor8(a, b) == BitOp("xor", a, b, 0)

Add8(a, b) == (a + b) % Byte
Sub8(a, b) == (a - b) % Byte
Add16(a, b) == (a + b) % Word
Sub16(a, b) == (a - b) % Word

(* c.pc += 2 *)
Advance(s) == [s EXCEPT !.pc = Add16(@, 2)]

(* fetchOpcode: both bytes are read (either index may panic) and merged    *)
(* big-endian.                                                             *)
FetchPanics(s) == s.pc >= MemSize \/ Add16(s.pc, 1) >= MemSize
fetchOpcode(s) == s.memory[s.pc] * 256 + s.memory[Add16(s.pc, 1)]

----------------------------------------------------------------------------
(* decodeOpcode, one definition per case of its switch. *)

(* Variant of the default case that records the word in c.opcode before   *)
(* it panics: what C6 must rule out.                                       *)
OpUnknown_RecordsOpcode(s, op) == Panicked([s EXCEPT !.opcode = op], PanicUnknown)

(* default: panic("Unknown opcode"), nothing assigned before it *)
OpUnknown(s, op) == Panicked(s, PanicUnknown)

(* Variant of 00E0 that leaves PC on the word: what C23 must rule out. *)
Op00E0_NoAdvance(s, op) ==
    Done([s EXCEPT !.gfx = [p \in 0..(GfxSize - 1) |-> 0],
                   !.drawFlag = TRUE])

(* 00E0 (any 0x0??0 word reaches this case) *)
Op00E0(s, op) ==
    Done(Advance([s EXCEPT !.gfx = [p \in 0..(GfxSize - 1) |-> 0],
                           !.drawFlag = TRUE]))

(* 00EE (any 0x0??E word): c.sp--, then the read of c.stack[c.sp] *)
Op00EE(s, op) ==
    LET sp1 == Sub16(s.sp, 1)
        s1 == [s EXCEPT !.sp = sp1]
    IN IF sp1 >= StackSize
       THEN Panicked(s1, PanicIndex)
       ELSE Done([s1 EXCEPT !.pc = Add16(s.stack[sp1], 2)])

Op1NNN(s, op) == Done([s EXCEPT !.pc = NNN(op)])

(* Variant of 2NNN that pushes the address after the call, so that 00EE's *)
(* own +2 returns one instruction too far: what C3 must rule out.          *)
Op2NNN_PushesNext(s, op) ==
    IF s.sp >= StackSize
    THEN Panicked(s, PanicIndex)
    ELSE Done([s EXCEPT !.stack[s.sp] = Add16(s.pc, 2),
                        !.sp = Add16(s.sp, 1),
                        !.pc = NNN(op)])

(* 2NNN: the store into c.stack[c.sp] comes first and may panic *)
Op2NNN(s, op) ==
    IF s.sp >= StackSize
    THEN Panicked(s, PanicIndex)
    ELSE Done([s EXCEPT !.stack[s.sp] = s.pc,
                        !.sp = Add16(s.sp, 1),
                        !.pc = NNN(op)])

SkipIf(s, cond) == Done(Advance(IF cond THEN Advance(s) ELSE s))

Op3XNN(s, op) == SkipIf(s, s.V[X(op)] = NN(op))
Op4XNN(s, op) == SkipIf(s, s.V[X(op)] # NN(op))
Op5XY0(s, op) == SkipIf(s, s.V[X(op)] = s.V[Y(op)])
Op9XY0(s, op) == SkipIf(s, s.V[X(op)] # s.V[Y(op)])

Op6XNN(s, op) == Done(Advance([s EXCEPT !.V[X(op)] = NN(op)]))
(* Variant of 7XNN that stores the carry in VF: what C10 must rule out. *)
Op7XNN_SetsCarry(s, op) ==
    Done(Advance([s EXCEPT !.V[X(op)] = Add8(@, NN(op)),
                           !.V[15] = IF s.V[X(op)] + NN(op) > 255 THEN 1 ELSE 0]))

Op7XNN(s, op) == Done(Advance([s EXCEPT !.V[X(op)] = Add8(@, NN(op))]))

Op8XY0(s, op) == Done(Advance([s EXCEPT !.V[X(op)] = s.V[Y(op)]]))
Op8XY1(s, op) == Done(Advance([s EXCEPT !.V[X(op)] = Or8(@, s.V[Y(op)])]))
Op8XY2(s, op) == Done(Advance([s EXCEPT !.V[X(op)] = And8(@, s.V[Y(op)])]))
Op8XY3(s, op) == Done(Advance([s EXCEPT !.V[X(op)] = Xor8(@, s.V[Y(op)])]))

(* 8XY4: VF is assigned first; the add then reads V[X] and V[Y] again *)
Op8XY4(s, op) ==
    LET carry == IF s.V[Y(op)] > 255 - s.V[X(op)] THEN 1 ELSE 0
        V1 == [s.V EXCEPT ![15] = carry]
        V2 == [V1 EXCEPT ![X(op)] = Add8(V1[X(op)], V1[Y(op)])]
    IN Done(Advance([s EXCEPT !.V = V2]))

(* 8XY5: vx and vy are bytes, so is vx-vy: the test compares a byte with 0 *)
Op8XY5(s, op) ==
    LET vx == s.V[X(op)]
        vy == s.V[Y(op)]
        V1 == [s.V EXCEPT ![15] = IF Sub8(vx, vy) < 0 THEN 1 ELSE 0]
        V2 == [V1 EXCEPT ![X(op)] = Sub8(vx, vy)]
    IN Done(Advance([s EXCEPT !.V = V2]))

(* 8XY6: VF = V[X] & 0x0F, then V[X] >>= 1 *)
Op8XY6(s, op) ==
    LET V1 == [s.V EXCEPT ![15] = And8(s.V[X(op)], 15)]
        V2 == [V1 EXCEPT ![X(op)] = V1[X(op)] \div 2]
    IN Done(Advance([s EXCEPT !.V = V2]))

(* 8XY7: the difference is stored in V[Y] *)
Op8XY7(s, op) ==
    LET vx == s.V[X(op)]
        vy == s.V[Y(op)]
        V1 == [s.V EXCEPT ![15] = IF Sub8(vy, vx) < 0 THEN 0 ELSE 1]
        V2 == [V1 EXCEPT ![Y(op)] = Sub8(vy, vx)]
    IN Done(Advance([s EXCEPT !.V = V2]))

(* 8XYE: VF = V[X] >> 7, then V[X] <<= 1 *)
Op8XYE(s, op) ==
    LET V1 == [s.V EXCEPT ![15] = s.V[X(op)] \div 128]
        V2 == [V1 EXCEPT ![X(op)] = (V1[X(op)] * 2) % Byte]
    IN Done(Advance([s EXCEPT !.V = V2]))

OpANNN(s, op) == Done(Advance([s EXCEPT !.I = NNN(op)]))
OpBNNN(s, op) == Done([s EXCEPT !.pc = Add16(NNN(op), s.V[0])])

(* CXNN: r is the byte rand.Intn(256) returned *)
OpCXNN(s, op, r) == Done(Advance([s EXCEPT !.V[X(op)] = And8(r, NN(op))]))

(* DXYN: the two loops, from row yline and column xline on.  Any panic in  *)
(* them is recovered by the deferred function, which panics again with its *)
(* own message; the pixels toggled before it stay toggled.                 *)
PanicDraw == "attempted to access index"

RECURSIVE Draw(_, _, _, _, _, _)
Draw(s, x, y, height, yline, xline) ==
    IF yline >= height THEN Done(s)
    ELSE IF Add16(s.I, yline) >= MemSize THEN Panicked(s, PanicDraw)
    ELSE IF xline >= 8 THEN Draw(s, x, y, height, yline + 1, 0)
    ELSE LET pixel == s.memory[Add16(s.I, yline)]
             idx == (x + xline + ((y + yline) * 64)) % Word
         IN IF Bit(pixel, 7 - xline) = 0
            THEN Draw(s, x, y, height, yline, xline + 1)
            ELSE IF idx >= GfxSize THEN Panicked(s, PanicDraw)
            ELSE Draw([s EXCEPT !.V[15] = IF s.gfx[idx] = 1 THEN 1 ELSE @,
                                !.gfx[idx] = (@ + 1) % 2],
                      x, y, height, yline, xline + 1)

(* Variant of DXYN without the reset of VF before the loops: what C8 must *)
(* rule out.                                                               *)
OpDXYN_NoReset(s, op) ==
    LET r == Draw(s, s.V[X(op)], s.V[Y(op)], N(op), 0, 0)
    IN IF r.panic # "" THEN r
       ELSE Done(Advance([r.c EXCEPT !.drawFlag = TRUE]))

OpDXYN(s, op) ==
    LET x == s.V[X(op)]
        y == s.V[Y(op)]
        r == Draw([s EXCEPT !.V[15] = 0], x, y, N(op), 0, 0)
    IN IF r.panic # "" THEN r
       ELSE Done(Advance([r.c EXCEPT !.drawFlag = TRUE]))

(* EX9E, EXA1: the key tested is c.keys[X] *)
OpEX9E(s, op) == SkipIf(s, s.keys[X(op)])
OpEXA1(s, op) == SkipIf(s, ~s.keys[X(op)])

OpFX07(s, op) == Done(Advance([s EXCEPT !.V[X(op)] = s.delayTimer]))
OpFX15(s, op) == Done(Advance([s EXCEPT !.delayTimer = s.V[X(op)]]))
OpFX18(s, op) == Done(Advance([s EXCEPT !.soundTimer = s.V[X(op)]]))
OpFX1E(s, op) == Done(Advance([s EXCEPT !.I = Add16(@, s.V[X(op)])]))

(* FX29: the product is a byte, widened after the multiplication *)
OpFX29(s, op) == Done(Advance([s EXCEPT !.I = (s.V[X(op)] * 5) % Byte]))

(* Variant of FX33 with the tens digit taken from v % 10: what C9 must    *)
(* rule out.                                                               *)
OpFX33_WrongTens(s, op) ==
    LET v == s.V[X(op)]
        s3 == [s EXCEPT !.memory[s.I] = v \div 100,
                        !.memory[Add16(s.I, 1)] = v % 10,
                        !.memory[Add16(s.I, 2)] = (v % 100) % 10]
    IN IF Add16(s.I, 2) >= MemSize \/ s.I >= MemSize - 2
       THEN Panicked(s, PanicIndex)
       ELSE Done(Advance(s3))

(* FX33: three stores, each of which may panic after the ones before it *)
OpFX33(s, op) ==
    LET v == s.V[X(op)]
        a0 == s.I
        a1 == Add16(s.I, 1)
        a2 == Add16(s.I, 2)
        s1 == [s EXCEPT !.memory[a0] = v \div 100]
        s2 == [s1 EXCEPT !.memory[a1] = (v \div 10) % 10]
        s3 == [s2 EXCEPT !.memory[a2] = (v % 100) % 10]
    IN IF a0 >= MemSize THEN Panicked(s, PanicIndex)
       ELSE IF a1 >= MemSize THEN Panicked(s1, PanicIndex)
       ELSE IF a2 >= MemSize THEN Panicked(s2, PanicIndex)
       ELSE Done(Advance(s3))

(* FX55: for i := 0; i < x; i++ { memory[I+i] = V[i] }, then I += x + 1 *)
RECURSIVE StoreRegs(_, _, _)
StoreRegs(s, x, i) ==
    IF i >= x THEN Done(s)
    ELSE IF Add16(s.I, i) >= MemSize THEN Panicked(s, PanicIndex)
    ELSE StoreRegs([s EXCEPT !.memory[Add16(s.I, i)] = s.V[i]], x, i + 1)

OpFX55(s, op) ==
    LET r == StoreRegs(s, X(op), 0)
    IN IF r.panic # "" THEN r
       ELSE Done(Advance([r.c EXCEPT !.I = Add16(@, X(op) + 1)]))

(* FX65: for i := 0; i < x; i++ { V[i] = memory[I+i] }, then I += x + 1 *)
RECURSIVE LoadRegs(_, _, _)
LoadRegs(s, x, i) ==
    IF i >= x THEN Done(s)
    ELSE IF Add16(s.I, i) >= MemSize THEN Panicked(s, PanicIndex)
    ELSE LoadRegs([s EXCEPT !.V[i] = s.memory[Add16(s.I, i)]], x, i + 1)

OpFX65(s, op) ==
    LET r == LoadRegs(s, X(op), 0)
    IN IF r.panic # "" THEN r
       ELSE Done(Advance([r.c EXCEPT !.I = Add16(@, X(op) + 1)]))

(* FX0A once awaitKeyPress has returned newKey *)
OpFX0A(s, op, newKey) == Done(Advance([s EXCEPT !.V[X(op)] = newKey]))

IsFX0A(op) == op \div 4096 = 15 /\ op % 256 = 10

(* decodeOpcode for every word but FX0A, whose case blocks in              *)
(* awaitKeyPress: the outer switch is on opcode & 0xF000, the inner ones   *)
(* on opcode & 0x000F (families 0 and 8) or opcode & 0x00FF (E and F).     *)
decodeOpcode(s, op, r) ==
    LET hi == op \div 4096
        lo == op % 16
        lo8 == op % 256
    IN CASE hi = 0 ->
              (CASE lo = 0 -> Op00E0(s, op)
                 [] lo = 14 -> Op00EE(s, op)
                 [] OTHER -> OpUnknown(s, op))
         [] hi = 1 -> Op1NNN(s, op)
         [] hi = 2 -> Op2NNN(s, op)
         [] hi = 3 -> Op3XNN(s, op)
         [] hi = 4 -> Op4XNN(s, op)
         [] hi = 5 -> Op5XY0(s, op)
         [] hi = 6 -> Op6XNN(s, op)
         [] hi = 7 -> Op7XNN(s, op)
         [] hi = 8 ->
              (CASE lo = 0 -> Op8XY0(s, op)
                 [] lo = 1 -> Op8XY1(s, op)
                 [] lo = 2 -> Op8XY2(s, op)
                 [] lo = 3 -> Op8XY3(s, op)
                 [] lo = 4 -> Op8XY4(s, op)
                 [] lo = 5 -> Op8XY5(s, op)
                 [] lo = 6 -> Op8XY6(s, op)
                 [] lo = 7 -> Op8XY7(s, op)
                 [] lo = 14 -> Op8XYE(s, op)
                 [] OTHER -> OpUnknown(s, op))
         [] hi = 9 -> Op9XY0(s, op)
         [] hi = 10 -> OpANNN(s, op)
         [] hi = 11 -> OpBNNN(s, op)
         [] hi = 12 -> OpCXNN(s, op, r)
         [] hi = 13 -> OpDXYN(s, op)
         [] hi = 14 ->
              (CASE lo8 = 158 -> OpEX9E(s, op)
                 [] lo8 = 161 -> OpEXA1(s, op)
                 [] OTHER -> OpUnknown(s, op))
         [] hi = 15 ->
              (CASE lo8 = 7 -> OpFX07(s, op)
                 [] lo8 = 21 -> OpFX15(s, op)
                 [] lo8 = 24 -> OpFX18(s, op)
                 [] lo8 = 30 -> OpFX1E(s, op)
                 [] lo8 = 41 -> OpFX29(s, op)
                 [] lo8 = 51 -> OpFX33(s, op)
                 [] lo8 = 85 -> OpFX55(s, op)
                 [] lo8 = 101 -> OpFX65(s, op)
                 [] OTHER -> OpUnknown(s, op))

(* awaitKeyPress, one pass of its loop over the sample newKeys: the lowest *)
(* key that is down in the sample and differs from c.keys, or 16 if none.  *)
NewlyPressed_Level(s, newKeys) == {i \in 0..(NumKeys - 1) : newKeys[i]}

NewlyPressed(s, newKeys) ==
    {i \in 0..(NumKeys - 1) : newKeys[i] /\ newKeys[i] # s.keys[i]}

Lowest(S) == CHOOSE i \in S : \A j \in S : i <= j

(* Variant of the tick that decrements without testing for 0. *)
AfterDecode_Wraps(s, newKeys) ==
    [s EXCEPT !.drawFlag = FALSE,
              !.keys = newKeys,
              !.delayTimer = (@ + Byte - 1) % Byte,
              !.soundTimer = (@ + Byte - 1) % Byte]

(* The rest of EmulateCycle after decodeOpcode: the draw, the key refresh  *)
(* and the timer tick.                                                     *)
AfterDecode(s, newKeys) ==
    [s EXCEPT !.drawFlag = FALSE,
              !.keys = newKeys,
              !.delayTimer = IF @ > 0 THEN @ - 1 ELSE @,
              !.soundTimer = IF @ > 0 THEN @ - 1 ELSE @]

(* Variant of the test before the tick that is true for any nonzero timer. *)
Beeps_WhileSounding(s) == s.soundTimer > 0

(* EmulateCycle prints BEEP when the sound timer is 1 before it is         *)
(* decremented.                                                            *)
Beeps(s) == s.soundTimer = 1

----------------------------------------------------------------------------
(* The inputs: program images, keyboard samples and random bytes. *)

(* Bounds of the input families. *)
MaxNest == 17
MaxHeight == 2

Ins(hi, x, y, n) == hi * 4096 + x * 256 + y * 16 + n
InsNN(hi, x, nn) == hi * 4096 + x * 256 + nn
InsNNN(hi, nnn) == hi * 4096 + nnn

(* The word a program stops on: a jump to itself, as word number k. *)
End(k) == InsNNN(1, LoadAddr + 2 * k)

(* The bytes of a sequence of words, big-endian. *)
Image(ws) ==
    [i \in 1..(2 * Len(ws)) |->
        IF i % 2 = 1 THEN ws[(i + 1) \div 2] \div 256 ELSE ws[i \div 2] % 256]

ByteSamples == {0, 1, 100, 156, 157, 255}
RegPairs == {<<0, 1>>, <<1, 15>>, <<15, 1>>, <<2, 2>>, <<15, 15>>}
AluOps == {4, 5}

(* V[x] = a; V[y] = b; 8xyn *)
AluPrograms ==
    {Image(<<InsNN(6, xy[1], a), InsNN(6, xy[2], b),
             Ins(8, xy[1], xy[2], n), End(3)>>) :
        xy \in RegPairs, a \in ByteSamples, b \in ByteSamples, n \in AluOps}

(* VF = 1; V[x] = nn; V[x] += k *)
AddPrograms ==
    {Image(<<InsNN(6, 15, 1), InsNN(6, x, nn), InsNN(7, x, k), End(3)>>) :
        x \in {0, 15}, nn \in ByteSamples, k \in ByteSamples}

(* d nested subroutines: subroutine k is "call subroutine k+1; return",    *)
(* the innermost one is "return"; the main program is subroutine 0.        *)
NestWords(d) ==
    [i \in 1..(2 * d + 1) |->
        IF i = 2 * d + 1 THEN 238
        ELSE IF i % 2 = 1 THEN InsNNN(2, LoadAddr + 4 * ((i + 1) \div 2))
        ELSE 238]

NestPrograms == {Image(NestWords(d)) : d \in 1..MaxNest}

(* V0 = 5; both timers = 5; then the word w *)
ProbeWords ==
    {0, 225, 254, 20497, 32792, 36881, 57344, 61695, 65535, 224}

ProbePrograms ==
    {Image(<<InsNN(6, 0, 5), InsNN(15, 0, 21), InsNN(15, 0, 24), w,
             End(4), End(5)>>) :
        w \in ProbeWords}

(* VF = 1; I = nnn; V0 = vx; V1 = vy; the same DXYN twice *)
SpriteAddrs == {0, 5, 768, 4095}
DrawPlaces == {<<0, 0>>, <<10, 5>>, <<56, 30>>, <<60, 31>>}

DrawPrograms ==
    {Image(<<InsNN(6, 15, 1), InsNNN(10, nnn), InsNN(6, 0, p[1]),
             InsNN(6, 1, p[2]), Ins(13, 0, 1, h), Ins(13, 0, 1, h), End(6)>>) :
        nnn \in SpriteAddrs, p \in DrawPlaces, h \in 1..MaxHeight}

(* V3 = v; I = nnn; F333 *)
BcdAddrs == {0, 768, 4093, 4094, 4095}

BcdPrograms ==
    {Image(<<InsNN(6, 3, v), InsNNN(10, nnn), InsNN(15, 3, 51), End(3)>>) :
        v \in ByteSamples, nnn \in BcdAddrs}

(* V0 = 5; V1 = 7; V2 = 9; I = nnn; FX55 *)
StorePrograms ==
    {Image(<<InsNN(6, 0, 5), InsNN(6, 1, 7), InsNN(6, 2, 9), InsNNN(10, nnn),
             InsNN(15, x, 85), End(5)>>) :
        nnn \in {0, 768}, x \in {0, 1, 2}}

(* V4 = 9; F40A *)
KeyPrograms == {Image(<<InsNN(6, 4, 9), InsNN(15, 4, 10), End(2)>>)}

(* V0 = d; delay timer = V0; V1 = s; sound timer = V1 *)
TimerPrograms ==
    {Image(<<InsNN(6, 0, d), InsNN(15, 0, 21), InsNN(6, 1, s),
             InsNN(15, 1, 24), End(4)>>) :
        d \in {0, 2, 4}, s \in {0, 1, 2}}

(* V1 = v; E19E or E1A1; the word skipped and the word after it both stop *)
SkipPrograms ==
    {Image(<<InsNN(6, 1, v), InsNN(14, 1, w), End(2), End(3)>>) :
        v \in {1, 2}, w \in {158, 161}}

(* V0 = a; V1 = b; 8016, 8017 or 801E *)
ShiftOps == {6, 7, 14}
ShiftPrograms ==
    {Image(<<InsNN(6, 0, a), InsNN(6, 1, b), Ins(8, 0, 1, n), End(3)>>) :
        a \in ByteSamples, b \in {1, 157}, n \in ShiftOps}

(* I = 0, where the font is; FX65 *)
FillPrograms ==
    {Image(<<InsNNN(10, 0), InsNN(15, x, 101), End(2)>>) : x \in {0, 1, 2}}

(* I = 0x200, where the first byte of the program is 0xA2; V0 = x; V1 = y; *)
(* D011: a sprite row that crosses the right edge, starts right of it or   *)
(* starts below the bottom edge.                                           *)
EdgePlaces == {<<60, 5>>, <<250, 5>>, <<0, 40>>}
EdgePrograms ==
    {Image(<<InsNNN(10, LoadAddr), InsNN(6, 0, p[1]), InsNN(6, 1, p[2]),
             Ins(13, 0, 1, 1), End(4)>>) : p \in EdgePlaces}

(* V0 = v; F029 *)
GlyphValues == ByteSamples \cup {15, 51, 52}
GlyphPrograms ==
    {Image(<<InsNN(6, 0, v), InsNN(15, 0, 41), End(2)>>) : v \in GlyphValues}

(* D005 draws glyph 0 at the origin (I, V0 and V1 are 0); then 00E0 *)
ClearPrograms == {Image(<<Ins(13, 0, 0, 5), 224, End(2)>>)}

(* An image that fills the load region, every word a jump to 0x200, and    *)
(* the same image one byte longer.                                         *)
FullImage == [i \in 1..(MemSize - LoadAddr) |-> IF i % 2 = 1 THEN 18 ELSE 0]
LongImage == [i \in 1..(MemSize - LoadAddr + 1) |-> IF i % 2 = 1 THEN 18 ELSE 0]

Programs ==
    AluPrograms \cup AddPrograms \cup NestPrograms \cup ProbePrograms
        \cup DrawPrograms \cup BcdPrograms \cup StorePrograms \cup KeyPrograms
        \cup TimerPrograms \cup SkipPrograms \cup ShiftPrograms
        \cup FillPrograms \cup {FullImage, LongImage}
        \cup EdgePrograms \cup GlyphPrograms \cup ClearPrograms

KeyPool == {1, 2}
KeyState(S) == [k \in 0..(NumKeys - 1) |-> k \in S]
KeySnapshots == {KeyState(S) : S \in SUBSET KeyPool}

(* What one call of getKeyState can do: return a snapshot, or, with Escape *)
(* down, exit the process.                                                 *)
Samples ==
    {[esc |-> FALSE, keys |-> k] : k \in KeySnapshots}
        \cup {[esc |-> TRUE, keys |-> KeyState({})]}

(* The bytes rand.Intn(256) can return; it is called by CXNN alone. *)
RandBytes == {0, 165, 255}
RandFor(op) == IF op \div 4096 = 12 THEN RandBytes ELSE {0}

----------------------------------------------------------------------------
Init ==
    /\ c = NewChip8
    /\ main = "NewChip8"
    /\ halt = ""
    /\ opcode = 0
    /\ beep = FALSE
    /\ callLog = <<>>
    /\ sampled = KeyState({})
    /\ loaded = <<>>
    /\ reused = FALSE

Initialize ==
    /\ halt = ""
    /\ main # "awaitKeyPress"
    /\ c' = InitializeStruct(c)
    /\ main' = "Initialize"
    /\ opcode' = 0
    /\ beep' = FALSE
    /\ callLog' = <<>>
    /\ sampled' = KeyState({})
    /\ loaded' = <<>>
    /\ reused' = (main = "EmulateCycle")
    /\ UNCHANGED halt

LoadGame(buf) ==
    /\ halt = ""
    /\ main = "Initialize"
    /\ LET r == LoadGameStruct(c, buf)
       IN /\ c' = r.c
          /\ halt' = r.panic
    /\ main' = "LoadGame"
    /\ loaded' = buf
    /\ reused' = FALSE
    /\ UNCHANGED <<opcode, beep, callLog, sampled>>

(* The history of calls, after word op ran on s without a panic. *)
LogAfter(log, s, op) ==
    IF op \div 4096 = 2 THEN Append(log, [at |-> s.pc, sp |-> s.sp])
    ELSE IF op \div 4096 = 0 /\ op % 16 = 14 /\ Len(log) > 0
         THEN SubSeq(log, 1, Len(log) - 1)
    ELSE log

(* The end of a cycle whose instruction left r: a panic ends the process   *)
(* there; otherwise the draw, then getKeyState, which exits the process    *)
(* when Escape is down, then the key latch and the timers.                 *)
Finish(r, sample) ==
    IF r.panic # ""
    THEN c' = r.c /\ halt' = r.panic /\ beep' = FALSE
    ELSE IF sample.esc
    THEN c' = [r.c EXCEPT !.drawFlag = FALSE] /\ halt' = "exit" /\ beep' = FALSE
    ELSE c' = AfterDecode(r.c, sample.keys) /\ halt' = "" /\ beep' = Beeps(r.c)

EmulateCycle(sample) ==
    /\ halt = ""
    /\ main \in {"LoadGame", "EmulateCycle"}
    /\ UNCHANGED <<loaded, reused>>
    /\ IF FetchPanics(c)
       THEN /\ halt' = PanicIndex
            /\ main' = "EmulateCycle"
            /\ UNCHANGED <<c, opcode, beep, callLog, sampled>>
       ELSE LET op == fetchOpcode(c)
            IN /\ opcode' = op
               /\ IF IsFX0A(op)
                  THEN /\ main' = "awaitKeyPress"
                       /\ beep' = FALSE
                       /\ sampled' = c.keys
                       /\ UNCHANGED <<c, halt, callLog>>
                  ELSE \E rnd \in RandFor(op) :
                       LET r == decodeOpcode(c, op, rnd)
                       IN /\ main' = "EmulateCycle"
                          /\ UNCHANGED sampled
                          /\ Finish(r, sample)
                          /\ callLog' = IF r.panic = "" THEN LogAfter(callLog, c, op)
                                        ELSE callLog

(* One pass of awaitKeyPress's loop over the sample polled, and, when it   *)
(* returns, the rest of the FX0A case and of the cycle.                    *)
AwaitKeyPress(polled, sample) ==
    /\ halt = ""
    /\ main = "awaitKeyPress"
    /\ UNCHANGED <<loaded, reused>>
    /\ IF polled.esc
       THEN halt' = "exit" /\ UNCHANGED <<c, main, opcode, beep, callLog, sampled>>
       ELSE IF NewlyPressed(c, polled.keys) = {}
       THEN sampled' = polled.keys
            /\ UNCHANGED <<c, main, halt, opcode, beep, callLog>>
       ELSE /\ sampled' = polled.keys
            /\ Finish(OpFX0A([c EXCEPT !.keys = polled.keys], opcode,
                             Lowest(NewlyPressed(c, polled.keys))),
                      sample)
            /\ main' = "EmulateCycle"
            /\ UNCHANGED <<opcode, callLog>>

Next ==
    \/ Initialize
    \/ \E buf \in Programs : LoadGame(buf)
    \/ \E sample \in Samples : EmulateCycle(sample)
    \/ \E polled \in Samples, sample \in Samples : AwaitKeyPress(polled, sample)

Spec == Init /\ [][Next]_vars

----------------------------------------------------------------------------
(* Properties.  A step is a cycle when EmulateCycle fetched a word and     *)
(* ran its case in decodeOpcode; it is completed when that case did not    *)
(* panic.                                                                  *)
IsCycle ==
    /\ halt = ""
    /\ main \in {"LoadGame", "EmulateCycle"}
    /\ main' = "EmulateCycle"
    /\ ~FetchPanics(c)

Completed == IsCycle /\ halt' \notin {PanicUnknown, PanicIndex, PanicDraw}

(* C1: 8XY5 leaves VF = 0 iff V[X] < V[Y] before it, else VF = 1, and     *)
(* V[X] = (V[X] - V[Y]) mod 256.                                           *)
C1_SubBorrowFlag ==
    [][LET op == fetchOpcode(c)
       IN (Completed /\ op \div 4096 = 8 /\ op % 16 = 5) =>
             /\ c'.V[15] = (IF c.V[X(op)] < c.V[Y(op)] THEN 0 ELSE 1)
             /\ (X(op) # 15 => c'.V[X(op)] = (c.V[X(op)] - c.V[Y(op)]) % 256)]_vars

(* C2: 8XY4, for every X and Y (F included), leaves VF = 1 iff the sum of  *)
(* V[X] and V[Y] before it exceeds 255, else VF = 0.                       *)
C2_AddCarryFlag ==
    [][LET op == fetchOpcode(c)
       IN (Completed /\ op \div 4096 = 8 /\ op % 16 = 4) =>
             c'.V[15] = (IF c.V[X(op)] + c.V[Y(op)] > 255 THEN 1 ELSE 0)]_vars

(* C3: a 00EE that returns sets PC to the address of the 2NNN it matches   *)
(* plus 2 and the stack pointer to its value before that 2NNN, at every    *)
(* nesting depth.                                                          *)
C3_CallReturnRoundTrip ==
    [][(Completed /\ fetchOpcode(c) = 238) =>
          /\ Len(callLog) > 0
          /\ c'.pc = callLog[Len(callLog)].at + 2
          /\ c'.sp = callLog[Len(callLog)].sp]_vars

(* C3 witness: the return from the 16th nested call. *)
C3_Witness ==
    /\ main = "EmulateCycle" /\ halt = "" /\ opcode = 238
    /\ c.sp = 15 /\ Len(callLog) = 15
    /\ c.pc = c.stack[15] + 2

(* C4: the stack pointer is between 0 and 16 in every state, the state a   *)
(* fatal condition leaves behind included.                                 *)
C4_StackPointerBound == c.sp >= 0 /\ c.sp <= StackSize

(* The words of the opcode table. *)
C5_Defined(op) ==
    LET hi == op \div 4096
    IN \/ op \in {224, 238}
       \/ hi \in {1, 2, 3, 4, 6, 7, 10, 11, 12, 13}
       \/ hi \in {5, 9} /\ op % 16 = 0
       \/ hi = 8 /\ op % 16 \in {0, 1, 2, 3, 4, 5, 6, 7, 14}
       \/ hi = 14 /\ op % 256 \in {158, 161}
       \/ hi = 15 /\ op % 256 \in {7, 10, 21, 24, 30, 41, 51, 85, 101}

(* C5: a cycle that fetches a word outside the opcode table ends in the    *)
(* Unknown opcode panic.                                                   *)
C5_UndefinedWordsPanic ==
    [][(IsCycle /\ ~C5_Defined(fetchOpcode(c))) => halt' = PanicUnknown]_vars

(* C6: a cycle that ends in the Unknown opcode panic leaves every field of *)
(* the struct as it was, the timers included.                              *)
C6_UnknownOpcodeKeepsState ==
    [][halt' = PanicUnknown => c' = c]_vars

(* C6 witness: 0xFFFF was fetched with both timers running. *)
C6_Witness ==
    /\ halt = PanicUnknown /\ opcode = 65535
    /\ c.delayTimer = 3 /\ c.soundTimer = 4 /\ c.pc = LoadAddr + 6

C8_Sprite(s, op) ==
    {64 * (s.V[Y(op)] + rk[1]) + s.V[X(op)] + rk[2] :
        rk \in {q \in (0..(N(op) - 1)) \X (0..7) :
                   Bit(s.memory[s.I + q[1]], 7 - q[2]) = 1}}

C8_Lit(s) == {p \in 0..(GfxSize - 1) : s.gfx[p] = 1}

(* C8: a DXYN whose sprite has a set bit and lies inside the grid, run on  *)
(* an empty framebuffer, leaves VF = 0 and exactly the sprite lit; run     *)
(* again on that framebuffer, it leaves VF = 1 and the framebuffer empty.  *)
C8_DrawTwice ==
    [][LET op == fetchOpcode(c)
       IN (/\ Completed /\ op \div 4096 = 13
           /\ c.I + N(op) <= MemSize
           /\ c.V[X(op)] + 7 <= 63 /\ c.V[Y(op)] + N(op) - 1 <= 31
           /\ C8_Sprite(c, op) # {})
          => /\ C8_Lit(c) = {} =>
                   c'.V[15] = 0 /\ C8_Lit(c') = C8_Sprite(c, op)
             /\ C8_Lit(c) = C8_Sprite(c, op) =>
                   c'.V[15] = 1 /\ C8_Lit(c') = {}]_vars

(* C8 witness: the second of two draws has cleared what the first lit. *)
C8_Witness ==
    /\ main = "EmulateCycle" /\ halt = "" /\ opcode = Ins(13, 0, 1, 2)
    /\ c.pc = LoadAddr + 12
    /\ c.V[15] = 1 /\ C8_Lit(c) = {} /\ c.V[0] = 56 /\ c.V[1] = 30

(* C9: FX33 with I + 2 <= 0xFFF leaves the hundreds, tens and ones digits  *)
(* of V[X] at I, I+1 and I+2, and I and the registers as they were.        *)
C9_Bcd ==
    [][LET op == fetchOpcode(c)
       IN (/\ Completed /\ op \div 4096 = 15 /\ op % 256 = 51
           /\ c.I + 2 <= MemSize - 1)
          => /\ \A k \in 0..2 : c'.memory[c.I + k] \in 0..9
             /\ 100 * c'.memory[c.I] + 10 * c'.memory[c.I + 1]
                   + c'.memory[c.I + 2] = c.V[X(op)]
             /\ c'.I = c.I
             /\ c'.V = c.V]_vars

(* C9 witness: 157 stored as 1, 5, 7 at the last three bytes of memory. *)
C9_Witness ==
    /\ main = "EmulateCycle" /\ halt = "" /\ opcode = InsNN(15, 3, 51)
    /\ c.V[3] = 157 /\ c.I = MemSize - 3
    /\ c.memory[MemSize - 3] = 1 /\ c.memory[MemSize - 2] = 5
    /\ c.memory[MemSize - 1] = 7

(* C10: 7XNN with operand k run right after 6XNN on the same X leaves      *)
(* V[X] = (NN + k) mod 256, and VF as it was when X is not F.              *)
C10_LoadThenAdd ==
    [][LET op == fetchOpcode(c)
       IN (/\ Completed /\ op \div 4096 = 7
           /\ main = "EmulateCycle" /\ opcode \div 4096 = 6
           /\ X(opcode) = X(op))
          => /\ c'.V[X(op)] = (NN(opcode) + NN(op)) % 256
             /\ X(op) # 15 => c'.V[15] = c.V[15]]_vars

(* C10 witness: 156 + 157 wrapped to 57 in V0 with VF still 1. *)
C10_Witness ==
    /\ main = "EmulateCycle" /\ halt = "" /\ opcode = InsNN(7, 0, 157)
    /\ c.V[0] = 57 /\ c.V[15] = 1

----------------------------------------------------------------------------
(* A step in which a cycle reached its timer tick: a cycle whose case in   *)
(* decodeOpcode returned, or an FX0A whose wait resolved, with no Escape   *)
(* at the key refresh.                                                     *)
Ticked ==
    /\ (IsCycle \/ main = "awaitKeyPress")
    /\ main' = "EmulateCycle"
    /\ halt' = ""

(* The timers at the tick of the cycle that runs the word at c.pc: FX15    *)
(* and FX18 set them earlier in the same cycle.                            *)
DelayAtTick ==
    LET op == fetchOpcode(c)
    IN IF op \div 4096 = 15 /\ op % 256 = 21 THEN c.V[X(op)] ELSE c.delayTimer

SoundAtTick ==
    LET op == fetchOpcode(c)
    IN IF op \div 4096 = 15 /\ op % 256 = 24 THEN c.V[X(op)] ELSE c.soundTimer

(* C11: in every cycle that completes, each timer is one less than it was  *)
(* at the tick if it was nonzero there and stays 0 otherwise, whatever the *)
(* other timer holds; neither wraps to 255.                                *)
C11_TimersSaturate ==
    [][Ticked =>
          /\ c'.delayTimer = (IF DelayAtTick > 0 THEN DelayAtTick - 1 ELSE 0)
          /\ c'.soundTimer = (IF SoundAtTick > 0 THEN SoundAtTick - 1 ELSE 0)]_vars

(* C11 witness: after FX18 stored 0, the sound timer stayed at 0 in the    *)
(* tick that took the delay timer from 2 to 1.                             *)
C11_Witness ==
    /\ main = "EmulateCycle" /\ halt = "" /\ opcode = InsNN(15, 1, 24)
    /\ c.V[1] = 0 /\ c.soundTimer = 0 /\ c.delayTimer = 1

(* C12: a cycle emits the beep if and only if its tick takes the sound     *)
(* timer from 1 to 0; a cycle that stops before its tick emits none.       *)
C12_BeepOnLastTick ==
    [][((IsCycle \/ main = "awaitKeyPress") /\ main' = "EmulateCycle") =>
          (beep' <=> (halt' = "" /\ SoundAtTick = 1 /\ c'.soundTimer = 0))]_vars

(* C12 witness: FX18 stored 1 and the tick of the same cycle beeped. *)
C12_Witness ==
    /\ main = "EmulateCycle" /\ halt = "" /\ opcode = InsNN(15, 1, 24)
    /\ beep /\ c.V[1] = 1 /\ c.soundTimer = 0

(* C13: the wait of FX0A resolves only with a key i that is down in the    *)
(* sample just read and was up both in the latch and in the sample read    *)
(* before; it then stores i in V[X] and adds 2 to PC.  While it waits, PC  *)
(* and the registers keep their values.                                    *)
C13_WaitResolvesOnEdgeOnly ==
    [][main = "awaitKeyPress" =>
          IF main' = "EmulateCycle"
          THEN LET i == c'.V[X(opcode)]
               IN /\ i \in 0..(NumKeys - 1)
                  /\ sampled'[i] /\ ~c.keys[i] /\ ~sampled[i]
                  /\ c'.pc = c.pc + 2
                  /\ \A j \in 0..(NumRegs - 1) :
                        j # X(opcode) => c'.V[j] = c.V[j]
          ELSE c'.pc = c.pc /\ c'.V = c.V]_vars

(* C13 witness: key 1 was held throughout and the wait resolved with key   *)
(* 2, pressed in the last sample.                                          *)
C13_Witness ==
    /\ main = "EmulateCycle" /\ opcode = InsNN(15, 4, 10)
    /\ sampled = KeyState({1, 2}) /\ c.V[4] = 2 /\ c.pc = LoadAddr + 4

(* C14: while FX0A waits, a sample in which some key is down that was up   *)
(* in the sample before resolves the wait, with such a key in V[X].        *)
C14_WaitResolvesOnEveryEdge ==
    [][(main = "awaitKeyPress" /\ halt' = ""
            /\ \E i \in 0..(NumKeys - 1) : ~sampled[i] /\ sampled'[i]) =>
          /\ main' = "EmulateCycle"
          /\ LET i == c'.V[X(opcode)]
             IN i \in 0..(NumKeys - 1) /\ ~sampled[i] /\ sampled'[i]]_vars

(* C15: EX9E adds 4 to PC if the key numbered by the value of V[X] is down *)
(* in the latch and 2 otherwise; EXA1 the reverse.                         *)
C15_SkipOnKeyInRegister ==
    [][LET op == fetchOpcode(c)
           down == c.keys[c.V[X(op)]]
       IN (Completed /\ op \div 4096 = 14 /\ c.V[X(op)] < NumKeys) =>
             /\ (op % 256 = 158 => c'.pc = c.pc + (IF down THEN 4 ELSE 2))
             /\ (op % 256 = 161 => c'.pc = c.pc + (IF down THEN 2 ELSE 4))]_vars

(* C16: LoadGame of an image of n bytes, n at most 0xE00, returns with     *)
(* memory[0x200 + i] the i-th byte for i < n and every other byte and      *)
(* field as before; with n above 0xE00 it stops with the fatal index       *)
(* error, no cycle runs, and nothing outside 0x200..0xFFF has been         *)
(* written.                                                                *)
C16_LoadFitsOrFails ==
    [][(main = "Initialize" /\ main' = "LoadGame") =>
          LET n == Len(loaded')
          IN /\ [c' EXCEPT !.memory = c.memory] = c
             /\ IF n <= MemSize - LoadAddr
                THEN /\ halt' = ""
                     /\ \A a \in 0..(MemSize - 1) :
                           c'.memory[a] =
                              (IF a >= LoadAddr /\ a < LoadAddr + n
                               THEN loaded'[a - LoadAddr + 1]
                               ELSE c.memory[a])
                ELSE /\ halt' = PanicIndex
                     /\ \A a \in 0..(LoadAddr - 1) :
                           c'.memory[a] = c.memory[a]]_vars

(* C16 witness: the image of exactly 0xE00 bytes is loaded up to the last  *)
(* byte of memory.                                                         *)
C16_Witness ==
    /\ main = "LoadGame" /\ halt = ""
    /\ Len(loaded) = MemSize - LoadAddr
    /\ c.memory[MemSize - 2] = 18 /\ c.memory[MemSize - 1] = 0

(* C17: 8XY7 with X and Y distinct and neither F leaves V[X] = (V[Y] -     *)
(* V[X]) mod 256, VF = 0 iff V[Y] < V[X] before it, else 1, and V[Y] as it *)
(* was.                                                                    *)
C17_ReverseSubtract ==
    [][LET op == fetchOpcode(c)
       IN (Completed /\ op \div 4096 = 8 /\ op % 16 = 7
              /\ X(op) # 15 /\ Y(op) # 15 /\ X(op) # Y(op)) =>
             /\ c'.V[X(op)] = (c.V[Y(op)] - c.V[X(op)]) % Byte
             /\ c'.V[15] = (IF c.V[Y(op)] < c.V[X(op)] THEN 0 ELSE 1)
             /\ c'.V[Y(op)] = c.V[Y(op)]]_vars

(* C18: with X other than F and v the value of V[X], 8XY6 leaves VF = v    *)
(* mod 2 and V[X] = v div 2, and 8XYE leaves VF = v div 128 and V[X] =     *)
(* 2v mod 256; VF is 0 or 1 after either.                                  *)
C18_ShiftsSetFlagToBitShiftedOut ==
    [][LET op == fetchOpcode(c)
           v == c.V[X(op)]
       IN (Completed /\ op \div 4096 = 8 /\ X(op) # 15) =>
             /\ (op % 16 = 6 =>
                    /\ c'.V[15] = v % 2
                    /\ c'.V[X(op)] = v \div 2)
             /\ (op % 16 = 14 =>
                    /\ c'.V[15] = v \div 128
                    /\ c'.V[X(op)] = (2 * v) % Byte)]_vars

(* C19: FX55 stores V[j] at memory[I + j] for every j from 0 to X          *)
(* inclusive and changes no other byte; FX65 loads V[j] from memory[I + j] *)
(* for every j from 0 to X inclusive and changes no register above X.      *)
C19_BlockTransferIsInclusive ==
    [][LET op == fetchOpcode(c)
           x == X(op)
       IN (Completed /\ op \div 4096 = 15 /\ c.I + x < MemSize) =>
             /\ (op % 256 = 85 =>
                    \A a \in 0..(MemSize - 1) :
                       c'.memory[a] =
                          (IF a >= c.I /\ a <= c.I + x
                           THEN c.V[a - c.I] ELSE c.memory[a]))
             /\ (op % 256 = 101 =>
                    \A j \in 0..(NumRegs - 1) :
                       c'.V[j] =
                          (IF j <= x THEN c.memory[c.I + j] ELSE c.V[j]))]_vars

(* C20: FX55 and FX65 leave I as it was. *)
C20_BlockTransferKeepsI ==
    [][LET op == fetchOpcode(c)
       IN (Completed /\ op \div 4096 = 15 /\ op % 256 \in {85, 101}) =>
             c'.I = c.I]_vars

----------------------------------------------------------------------------
(* The pixels a DXYN word would toggle from struct s under each edge       *)
(* policy: coordinates taken modulo the grid, or bits outside it dropped.  *)
C21_SpriteBits(s, op) ==
    {q \in (0..(N(op) - 1)) \X (0..7) : Bit(s.memory[s.I + q[1]], 7 - q[2]) = 1}

C21_Wrapped(s, op) ==
    {64 * ((s.V[Y(op)] + q[1]) % 32) + ((s.V[X(op)] + q[2]) % 64) :
        q \in C21_SpriteBits(s, op)}

C21_Clipped(s, op) ==
    {64 * (s.V[Y(op)] + q[1]) + s.V[X(op)] + q[2] :
        q \in {b \in C21_SpriteBits(s, op) :
                  s.V[X(op)] + b[2] < 64 /\ s.V[Y(op)] + b[1] < 32}}

C21_Toggle(lit, S) == (lit \ S) \cup (S \ lit)

(* C21: a DXYN whose sprite rows lie in memory never stops on a            *)
(* framebuffer index out of range, and toggles exactly the sprite's set    *)
(* bits at their wrapped places or exactly those that fall inside the      *)
(* grid; so a row that crosses the right edge toggles nothing at the start *)
(* of the next row.                                                        *)
C21_DrawWrapsOrClips ==
    [][LET op == fetchOpcode(c)
       IN (IsCycle /\ op \div 4096 = 13 /\ c.I + N(op) <= MemSize) =>
             /\ halt' # PanicDraw
             /\ \/ C8_Lit(c') = C21_Toggle(C8_Lit(c), C21_Wrapped(c, op))
                \/ C8_Lit(c') = C21_Toggle(C8_Lit(c), C21_Clipped(c, op))]_vars

(* C22: FX29 leaves I = 5 * V[X], not reduced modulo 256, and adds 2 to    *)
(* PC.                                                                     *)
C22_GlyphAddress ==
    [][LET op == fetchOpcode(c)
       IN (Completed /\ op \div 4096 = 15 /\ op % 256 = 41) =>
             /\ c'.I = 5 * c.V[X(op)]
             /\ c'.pc = c.pc + 2]_vars

(* C23: the word 0x00E0, whatever the framebuffer holds, leaves every      *)
(* pixel 0, sets the dirty flag (so the cycle draws, which clears it       *)
(* again), adds exactly 2 to PC, and leaves the registers, I, memory, the  *)
(* stack and the stack pointer as they were.                               *)
C23_ClearScreen ==
    [][(IsCycle /\ fetchOpcode(c) = 224) =>
          /\ halt' \in {"", "exit"}
          /\ decodeOpcode(c, 224, 0).c.drawFlag
          /\ ~c'.drawFlag
          /\ \A p \in 0..(GfxSize - 1) : c'.gfx[p] = 0
          /\ c'.pc = c.pc + 2
          /\ c'.V = c.V /\ c'.I = c.I /\ c'.memory = c.memory
          /\ c'.stack = c.stack /\ c'.sp = c.sp]_vars

(* C23 witness: glyph 0 was drawn, the 00E0 after it has run, the          *)
(* framebuffer is empty and PC is on the word after.                       *)
C23_Witness ==
    /\ main = "EmulateCycle" /\ halt = "" /\ opcode = 224
    /\ c.memory[LoadAddr] = 208 /\ c.pc = LoadAddr + 4
    /\ C8_Lit(c) = {}

(* The struct with every field at the value a reset gives it. *)
C24_Reset ==
    [ opcode     |-> 0,
      I          |-> 0,
      pc         |-> 512,
      memory     |-> [a \in 0..4095 |->
                         IF a < 80 THEN Chip8Fontset[a + 1] ELSE 0],
      V          |-> [r \in 0..15 |-> 0],
      gfx        |-> [p \in 0..2047 |-> 0],
      drawFlag   |-> TRUE,
      stack      |-> [k \in 0..15 |-> 0],
      sp         |-> 0,
      delayTimer |-> 0,
      soundTimer |-> 0,
      keys       |-> [k \in 0..15 |-> FALSE] ]

(* C24: Initialize, whatever the struct held, leaves PC = 0x200, the stack *)
(* pointer, I, the registers, the stack, the framebuffer, the key latch    *)
(* and both timers zero, the font in memory[0x000..0x04F] and zero in the  *)
(* rest of memory, and the dirty flag set: the same struct every time.     *)
C24_InitializeResetsAll ==
    [][main' = "Initialize" => c' = C24_Reset]_vars

(* C24 witness: the struct as Initialize leaves it, after it had run       *)
(* cycles.                                                                 *)
C24_Witness ==
    /\ main = "Initialize" /\ reused
    /\ c.pc = LoadAddr /\ c.memory[LoadAddr] = 0
    /\ \A k \in 0..(NumKeys - 1) : ~c.keys[k]

====
